---------------------------- MODULE Spec2Model ----------------------------
(***************************************************************************)
(* Model of app.py: the solve service (solve_image, manifest, get_pbm      *)
(* over the process-wide PAGE_STORE), the paginator compose_to_pages and   *)
(* the portable-bitmap encoder to_pbm_p4.                                  *)
(*                                                                         *)
(* An image is modelled by its size and by a description of what it        *)
(* shows; pixel values are not modelled.  Python floats are IEEE doubles:  *)
(* the two float operations of compose_to_pages (one division, one         *)
(* multiplication) are computed bit by bit with round-to-nearest-even.     *)
(***************************************************************************)
EXTENDS Integers, Sequences, FiniteSets, TLC

VARIABLES
    \* ---- the service (module globals of app.py and the last HTTP exchange)
    PAGE_STORE,      \* token -> list of encoded pages            (line 14)
    OPENAI_API_KEY,  \* whether the environment variable is set   (line 94)
    USE_RESPONSES,   \* outcome of the import-time try/except     (lines 16-21)
    request,         \* the most recent request, with what its collaborators did
    response,        \* the response to it
    told,            \* token -> the page count the last solve_image response gave
    \* ---- one run of compose_to_pages, statement by statement
    pc,              \* position in compose_to_pages
    src,             \* its argument (size of the raster)
    new_w, new_h,    \* the scaled size computed at line 66
    imgL,            \* the scaled raster
    y,               \* the loop variable
    pages,           \* the list being built
    \* ---- one page given to to_pbm_p4, and what the calls returned
    page,
    encoded

service_vars == <<PAGE_STORE, OPENAI_API_KEY, USE_RESPONSES, request, response, told>>
compose_vars == <<pc, src, new_w, new_h, imgL, y, pages>>
encode_vars  == <<page, encoded>>
vars == <<PAGE_STORE, OPENAI_API_KEY, USE_RESPONSES, request, response, told,
          pc, src, new_w, new_h, imgL, y, pages, page, encoded>>

\* a local that has not been assigned: a number, an image
Unset   == -1
NoShows == [kind |-> "unset", origin |-> <<0, 0>>]
NoImage == [w |-> 0, h |-> 0, shows |-> NoShows]

----------------------------------------------------------------------------
(* Program constants.                                                      *)

CANVAS_W == 200
CANVAS_H == 200
PADDING  == 8
UPSCALE  == 4

\* plt.figure(figsize=(3, 12), dpi=100*scale): the size in pixels of the figure
FIG_W == 3 * (100 * UPSCALE)
FIG_H == 12 * (100 * UPSCALE)

\* the usable width without the padding taken off
max_w_unpadded == CANVAS_W

max_w  == CANVAS_W - 2 * PADDING
page_h == CANVAS_H - 2 * PADDING

\* significand width of a Python float
MANT == 53
\* the float operations below work on LIMB bits at a time (MANT = 1 + 4 * LIMB)
LIMB == (MANT - 1) \div 4

----------------------------------------------------------------------------
(* Bounds of the model.                                                    *)

\* rasters of width and height 0..Small, and sizes within Near of 184 and 368
Small     == 2
Near      == 2
\* widths that are 2..WMul times the usable width
WMul      == 3
\* the store is explored with tokens 1..MaxTokens
MaxTokens == 3
\* get_pbm is called with indices -MaxIndex..MaxIndex
MaxIndex  == 4
\* to_pbm_p4 is given pages of width and height 1..MaxDim, and the canvas size
MaxDim    == 17

----------------------------------------------------------------------------
(* Python float arithmetic.  A positive float is a sequence of bits (most  *)
(* significant first, leading 1) with a binary point: bits * 2^(-exp).     *)
(* Division and multiplication go LIMB bits at a time.                     *)

Min(a, b) == IF a <= b THEN a ELSE b

\* ceil(a / b): the smallest k with k * b >= a
Ceil(a, b) == CHOOSE k \in 0..a : k * b >= a /\ \A j \in 0..(k - 1) : j * b < a

RECURSIVE Pow2(_)
Pow2(k) == IF k = 0 THEN 1 ELSE 2 * Pow2(k - 1)

\* the number a sequence of at most 2 * LIMB bits stands for
RECURSIVE BitsVal(_)
BitsVal(bits) ==
    IF bits = <<>> THEN 0
    ELSE 2 * BitsVal(SubSeq(bits, 1, Len(bits) - 1)) + bits[Len(bits)]

\* the n low bits of v, most significant first
Bin(v, n) == [i \in 1..n |-> (v \div Pow2(n - i)) % 2]

\* number of bits of v >= 1
BitLength(v) == CHOOSE n \in 1..(2 * LIMB + 1) : Pow2(n - 1) <= v /\ v < Pow2(n)

\* bits + 1
Incr(bits) ==
    IF \A i \in 1..Len(bits) : bits[i] = 1
    THEN <<1>> \o [i \in 1..Len(bits) |-> 0]
    ELSE LET z == CHOOSE j \in 1..Len(bits) :
                      bits[j] = 0 /\ \A i \in (j + 1)..Len(bits) : bits[i] = 1
         IN  [i \in 1..Len(bits) |-> IF i < z THEN bits[i] ELSE IF i = z THEN 1 ELSE 0]

\* round-to-nearest, ties-to-even, of bits to MANT significant bits:
\* the rounded significand and the number of low bits dropped
RoundBits(bits) ==
    IF Len(bits) <= MANT THEN [m |-> bits, dropped |-> 0]
    ELSE LET kept == SubSeq(bits, 1, MANT)
             rest == SubSeq(bits, MANT + 1, Len(bits))
             more == \E i \in 2..Len(rest) : rest[i] = 1
             up   == rest[1] = 1 /\ (more \/ kept[MANT] = 1)
         IN  [m |-> IF up THEN Incr(kept) ELSE kept, dropped |-> Len(rest)]

\* the next n limbs of the quotient r / b, for r < b, and the remainder left
RECURSIVE LongDiv(_, _, _, _)
LongDiv(r, b, n, acc) ==
    IF n = 0 THEN [q |-> acc, r |-> r]
    ELSE LongDiv((r * Pow2(LIMB)) % b, b, n - 1,
                 acc \o Bin((r * Pow2(LIMB)) \div b, LIMB))

\* smallest k with a * 2^k >= b
RECURSIVE Shift(_, _)
Shift(a, b) == IF a >= b THEN 0 ELSE 1 + Shift(2 * a, b)

\* a significand that rounding carried to MANT + 1 bits, back to MANT bits
Normal(m, exp) ==
    IF Len(m) > MANT THEN [m |-> SubSeq(m, 1, MANT), exp |-> exp - 1]
    ELSE [m |-> m, exp |-> exp]

\* the float a / b for integers 0 < a < b
FloatDiv(a, b) ==
    LET k  == Shift(a, b)
        d  == LongDiv(a * Pow2(k) - b, b, (MANT - 1) \div LIMB, <<1>>)
        up == 2 * d.r > b \/ (2 * d.r = b /\ d.q[MANT] = 1)
    IN  Normal(IF up THEN Incr(d.q) ELSE d.q, MANT - 1 + k)

\* the float 1.0
One == [m |-> <<1>> \o [i \in 1..(MANT - 1) |-> 0], exp |-> MANT - 1]

\* bits * n + carry, for an integer n >= 1
RECURSIVE MulBits(_, _, _)
MulBits(bits, n, carry) ==
    IF Len(bits) <= LIMB
    THEN Bin(BitsVal(bits) * n + carry, BitLength(BitsVal(bits) * n + carry))
    ELSE LET low == BitsVal(SubSeq(bits, Len(bits) - LIMB + 1, Len(bits))) * n + carry
         IN  MulBits(SubSeq(bits, 1, Len(bits) - LIMB), n, low \div Pow2(LIMB))
             \o Bin(low % Pow2(LIMB), LIMB)

\* int(n * f) for an integer n >= 0 and a float f: the product is rounded to a
\* float, then truncated
IntOfProduct(n, f) ==
    IF n = 0 THEN 0
    ELSE LET p    == RoundBits(MulBits(f.m, n, 0))
             frac == f.exp - p.dropped
         IN  IF Len(p.m) <= frac THEN 0
             ELSE BitsVal(SubSeq(p.m, 1, Len(p.m) - frac))

----------------------------------------------------------------------------
(* Images.  An image is [w, h, shows]: its size, and what it shows.        *)

Image(w, h, shows) == [w |-> w, h |-> h, shows |-> shows]

\* a raster as first produced, w x h: what it shows is named by its kind and by
\* the size it had then, so that scaled copies of different rasters differ
Raster(w, h, kind) == Image(w, h, [kind |-> kind, origin |-> <<w, h>>])

Ok(v)     == [ok |-> TRUE, value |-> v]
Raise(e)  == [ok |-> FALSE, value |-> e]

\* Image.resize (line 67).  Pillow returns a copy when the size is unchanged and
\* rejects a target with a side below 1 ("height and width must be > 0").
resize(img, w, h) ==
    IF <<w, h>> = <<img.w, img.h>> THEN Ok(img)
    ELSE IF w < 1 \/ h < 1 THEN Raise("ValueError")
    ELSE Ok(Image(w, h, img.shows))

\* scale = min(1.0, max_w / imgL.width)   (line 65), for width >= 1
Scale(width) ==
    IF max_w >= width THEN One
    ELSE FloatDiv(max_w, width)

\* new_w, new_h = int(imgL.width*scale), int(imgL.height*scale)   (line 66)
new_size(img, sc) ==
    [new_w |-> IntOfProduct(img.w, sc), new_h |-> IntOfProduct(img.h, sc)]

\* every band a full page high
slice_h_full(nh, yy) == page_h

\* slice_h = min(page_h, new_h - y)   (line 73)
slice_h(nh, yy) == Min(page_h, nh - yy)

\* lines 74-77: the band of rows [yy, yy + slice_h) of the scaled raster, pasted
\* on a white CANVAS_W x CANVAS_H canvas at ((CANVAS_W - new_w)//2, PADDING)
canvas(scaled, yy) ==
    Image(CANVAS_W, CANVAS_H,
          [at   |-> <<(CANVAS_W - scaled.w) \div 2, PADDING>>,
           crop |-> <<0, yy, scaled.w, yy + slice_h(scaled.h, yy)>>,
           of   |-> scaled.shows])

\* one iteration of the while loop (lines 73-78)
LoopBody(scaled, yy, pp) ==
    [y |-> yy + slice_h(scaled.h, yy), pages |-> Append(pp, canvas(scaled, yy))]

\* the while loop (lines 72-78)
RECURSIVE Loop(_, _, _)
Loop(scaled, yy, pp) ==
    IF yy < scaled.h
    THEN Loop(scaled, LoopBody(scaled, yy, pp).y, LoopBody(scaled, yy, pp).pages)
    ELSE pp

\* lines 62-67: the composite on white, and the downscale
Downscale(img) ==
    IF img.w = 0 THEN Raise("ZeroDivisionError")
    ELSE resize(img, new_size(img, Scale(img.w)).new_w, new_size(img, Scale(img.w)).new_h)

compose_to_pages(img) ==
    IF Downscale(img).ok THEN Ok(Loop(Downscale(img).value, 0, <<>>))
    ELSE Downscale(img)

----------------------------------------------------------------------------
(* to_pbm_p4 (lines 81-84).  The bytes it returns are the ASCII header and *)
(* the packed rows: rows of stride bytes each, holding the dithered image. *)

Digit == <<"0", "1", "2", "3", "4", "5", "6", "7", "8", "9">>

\* str(n) for n >= 0
RECURSIVE Str(_)
Str(n) == IF n < 10 THEN <<Digit[n + 1]>> ELSE Str(n \div 10) \o <<Digit[(n % 10) + 1]>>

\* the header with the two numbers the other way round
Header_hw(w, h) == <<"P", "4", "\n">> \o Str(h) \o <<" ">> \o Str(w) \o <<"\n">>

\* f"P4\n{w} {h}\n".encode("ascii")   (line 84)
Header(w, h) == <<"P", "4", "\n">> \o Str(w) \o <<" ">> \o Str(h) \o <<"\n">>

\* mono.tobytes() of a mode "1" image: each row packed 8 pixels to the byte
tobytes(mono) ==
    [rows |-> mono.h, stride |-> (mono.w + 7) \div 8, bits |-> mono.shows]

to_pbm_p4(img) ==
    LET mono == Image(img.w, img.h, img.shows)
    IN  [header |-> Header(mono.w, mono.h), data |-> tobytes(mono)]

\* no bytes
NoBytes == [header |-> <<>>,
            data |-> [rows |-> 0, stride |-> 0,
                      bits |-> [at |-> <<0, 0>>, crop |-> <<0, 0, 0, 0>>, of |-> NoShows]]]

----------------------------------------------------------------------------
(* compose_to_pages, statement by statement.                               *)

Widths ==
    (0..Small) \cup ((max_w - Near)..(max_w + Near))
    \cup {k * max_w : k \in 2..WMul} \cup {321, FIG_W}

Heights ==
    (0..Small) \cup ((page_h - Near)..(page_h + Near))
    \cup ((2 * page_h - Near)..(2 * page_h + Near)) \cup {321, 500, FIG_H}

ComposeInputs == {Raster(w, h, "ink") : w \in Widths, h \in Heights}

InitCompose ==
    /\ src \in ComposeInputs
    /\ pc = "start"
    /\ imgL = NoImage /\ y = Unset /\ pages = <<>>
    /\ new_w = Unset /\ new_h = Unset

\* lines 62-66
ComposeSize ==
    /\ pc = "start"
    /\ IF src.w = 0
       THEN pc' = "ZeroDivisionError" /\ UNCHANGED <<new_w, new_h>>
       ELSE /\ new_w' = new_size(src, Scale(src.w)).new_w
            /\ new_h' = new_size(src, Scale(src.w)).new_h
            /\ pc' = "resize"
    /\ UNCHANGED <<src, imgL, y, pages, service_vars, encode_vars>>

\* lines 67-71
ComposeResize ==
    /\ pc = "resize"
    /\ IF resize(src, new_w, new_h).ok
       THEN /\ imgL' = resize(src, new_w, new_h).value
            /\ y' = 0
            /\ pc' = "while"
       ELSE /\ pc' = resize(src, new_w, new_h).value
            /\ UNCHANGED <<imgL, y>>
    /\ UNCHANGED <<src, new_w, new_h, pages, service_vars, encode_vars>>

\* lines 72-78
ComposeLoop ==
    /\ pc = "while"
    /\ y < new_h
    /\ y' = LoopBody(imgL, y, pages).y
    /\ pages' = LoopBody(imgL, y, pages).pages
    /\ UNCHANGED <<pc, src, imgL, new_w, new_h, service_vars, encode_vars>>

\* line 79
ComposeReturn ==
    /\ pc = "while"
    /\ ~(y < new_h)
    /\ pc' = "return"
    /\ UNCHANGED <<src, imgL, y, pages, new_w, new_h, service_vars, encode_vars>>

NextCompose == ComposeSize \/ ComposeResize \/ ComposeLoop \/ ComposeReturn

----------------------------------------------------------------------------
(* The service.                                                            *)

Tokens == 1..MaxTokens

\* sizes of the bounding box of what matplotlib drew, as tried here: a box that
\* fits the page, one that scales to height 0, a tall one, a wide and tall one
Boxes == {<<184, 1>>, <<185, 1>>, <<100, 500>>, <<368, 370>>}

\* what the renderer's libraries do in one call: mathtext raises or draws, and
\* getbbox() finds a box, or none (<<>>) when nothing was drawn
Drawings ==
    {[raises |-> TRUE, bbox |-> <<>>]}
    \cup {[raises |-> FALSE, bbox |-> b] : b \in Boxes \cup {<<>>}}

NoDrawing == [raises |-> TRUE, bbox |-> <<>>]

\* what the model call does: it raises, or returns text
Answers == {"raise", "text"}

\* ask_openai_vision (lines 36-46)
ask_openai_vision(answer) ==
    IF ~USE_RESPONSES THEN Raise("SDK de OpenAI no disponible en entorno")
    ELSE IF answer = "raise" THEN Raise("the model call raised")
    ELSE Ok(answer)

\* latex_block_to_rgba (lines 48-59): img.crop(bbox) if bbox else img
latex_block_to_rgba(drawn) ==
    IF drawn.raises THEN Raise("the renderer raised")
    ELSE IF drawn.bbox # <<>> THEN Ok(Raster(drawn.bbox[1], drawn.bbox[2], "ink"))
    ELSE Ok(Raster(FIG_W, FIG_H, "blank"))

\* line 99, pbms = [to_pbm_p4(p) for p in compose_to_pages(rgba)], as a function
\* of rgba over the rasters the renderer returns here
Renderable == {latex_block_to_rgba(d).value : d \in {x \in Drawings : ~x.raises}}

pbms_of ==
    [r \in Renderable |->
        IF compose_to_pages(r).ok
        THEN Ok([k \in 1..Len(compose_to_pages(r).value) |->
                    to_pbm_p4(compose_to_pages(r).value[k])])
        ELSE compose_to_pages(r)]

Request(op, token, i, answer, drawn) ==
    [op |-> op, token |-> token, i |-> i, answer |-> answer, drawn |-> drawn]

Response(status, detail, token, n, content, media_type) ==
    [status |-> status, detail |-> detail, token |-> token, pages |-> n,
     content |-> content, media_type |-> media_type]

\* an exception ends the handler: HTTPException(500, detail), or any other
\* exception, which the server answers with status 500
Error500(detail) == Response(500, detail, 0, 0, NoBytes, "application/json")
Error404(detail) == Response(404, detail, 0, 0, NoBytes, "application/json")

\* PAGE_STORE[token] = value
Put(store, token, value) ==
    [t \in (DOMAIN store) \cup {token} |-> IF t = token THEN value ELSE store[t]]

\* the body of solve_image up to line 99: the failure, or the encoded pages
solve_pipeline(answer, drawn) ==
    IF ~OPENAI_API_KEY THEN Raise("Falta OPENAI_API_KEY")
    ELSE IF ~ask_openai_vision(answer).ok THEN ask_openai_vision(answer)
    ELSE IF ~latex_block_to_rgba(drawn).ok THEN latex_block_to_rgba(drawn)
    ELSE pbms_of[latex_block_to_rgba(drawn).value]

\* solve_image that first empties the store
solve_image_fresh(answer, drawn, token) ==
    /\ request' = Request("solve_image", 0, 0, answer, drawn)
    /\ IF solve_pipeline(answer, drawn).ok
       THEN /\ PAGE_STORE' = Put(<<>>, token, solve_pipeline(answer, drawn).value)
            /\ response' = Response(200, "", token, Len(solve_pipeline(answer, drawn).value),
                                    NoBytes, "application/json")
            /\ told' = Put(told, token, Len(solve_pipeline(answer, drawn).value))
       ELSE /\ response' = Error500(solve_pipeline(answer, drawn).value)
            /\ UNCHANGED <<PAGE_STORE, told>>
    /\ UNCHANGED <<OPENAI_API_KEY, USE_RESPONSES, compose_vars, encode_vars>>

\* solve_image that puts an empty entry under its token before the pipeline runs
solve_image_reserve(answer, drawn, token) ==
    /\ request' = Request("solve_image", 0, 0, answer, drawn)
    /\ IF solve_pipeline(answer, drawn).ok
       THEN /\ PAGE_STORE' = Put(PAGE_STORE, token, solve_pipeline(answer, drawn).value)
            /\ response' = Response(200, "", token, Len(solve_pipeline(answer, drawn).value),
                                    NoBytes, "application/json")
            /\ told' = Put(told, token, Len(solve_pipeline(answer, drawn).value))
       ELSE /\ response' = Error500(solve_pipeline(answer, drawn).value)
            /\ PAGE_STORE' = Put(PAGE_STORE, token, <<>>)
            /\ UNCHANGED told
    /\ UNCHANGED <<OPENAI_API_KEY, USE_RESPONSES, compose_vars, encode_vars>>

\* solve_image (lines 92-102); token is what uuid.uuid4().hex[:12] gives
solve_image(answer, drawn, token) ==
    /\ request' = Request("solve_image", 0, 0, answer, drawn)
    /\ IF solve_pipeline(answer, drawn).ok
       THEN /\ PAGE_STORE' = Put(PAGE_STORE, token, solve_pipeline(answer, drawn).value)
            /\ response' = Response(200, "", token, Len(solve_pipeline(answer, drawn).value),
                                    NoBytes, "application/json")
            /\ told' = Put(told, token, Len(solve_pipeline(answer, drawn).value))
       ELSE /\ response' = Error500(solve_pipeline(answer, drawn).value)
            /\ UNCHANGED <<PAGE_STORE, told>>
    /\ UNCHANGED <<OPENAI_API_KEY, USE_RESPONSES, compose_vars, encode_vars>>

\* the response of manifest (lines 104-108)
manifest_response(token) ==
    IF token \notin DOMAIN PAGE_STORE THEN Error404("Token no encontrado")
    ELSE Response(200, "", token, Len(PAGE_STORE[token]), NoBytes, "application/json")

manifest(token) ==
    /\ request' = Request("manifest", token, 0, "", NoDrawing)
    /\ response' = manifest_response(token)
    /\ UNCHANGED <<PAGE_STORE, told, OPENAI_API_KEY, USE_RESPONSES, compose_vars, encode_vars>>

\* pages[i] in Python, for a list of n pages: an index below 0 counts from the end
PyIndex(list, i) ==
    IF 0 <= i /\ i < Len(list) THEN Ok(list[i + 1])
    ELSE IF -Len(list) <= i /\ i < 0 THEN Ok(list[Len(list) + i + 1])
    ELSE Raise("IndexError")

\* get_pbm without the test 0 <= i
pbm_response_nolower(token, i) ==
    IF token \notin DOMAIN PAGE_STORE \/ ~(i < Len(PAGE_STORE[token]))
    THEN Error404("Página no encontrada")
    ELSE IF PyIndex(PAGE_STORE[token], i).ok
    THEN Response(200, "", 0, 0, PyIndex(PAGE_STORE[token], i).value,
                  "image/x-portable-bitmap")
    ELSE Error500(PyIndex(PAGE_STORE[token], i).value)

\* get_pbm with the test 0 <= i <= len(pages)
pbm_response_upto(token, i) ==
    IF token \notin DOMAIN PAGE_STORE \/ ~(0 <= i /\ i <= Len(PAGE_STORE[token]))
    THEN Error404("Página no encontrada")
    ELSE IF PyIndex(PAGE_STORE[token], i).ok
    THEN Response(200, "", 0, 0, PyIndex(PAGE_STORE[token], i).value,
                  "image/x-portable-bitmap")
    ELSE Error500(PyIndex(PAGE_STORE[token], i).value)

\* the response of get_pbm (lines 110-115)
pbm_response(token, i) ==
    IF token \notin DOMAIN PAGE_STORE \/ ~(0 <= i /\ i < Len(PAGE_STORE[token]))
    THEN Error404("Página no encontrada")
    ELSE IF PyIndex(PAGE_STORE[token], i).ok
    THEN Response(200, "", 0, 0, PyIndex(PAGE_STORE[token], i).value,
                  "image/x-portable-bitmap")
    ELSE Error500(PyIndex(PAGE_STORE[token], i).value)

get_pbm(token, i) ==
    /\ request' = Request("get_pbm", token, i, "", NoDrawing)
    /\ response' = pbm_response(token, i)
    /\ UNCHANGED <<PAGE_STORE, told, OPENAI_API_KEY, USE_RESPONSES, compose_vars, encode_vars>>

NoRequest  == Request("none", 0, 0, "", NoDrawing)
NoResponse == Response(0, "", 0, 0, NoBytes, "")

\* the module has been imported: USE_RESPONSES is False when the SDK is missing or
\* when OpenAI(api_key=None) raised for want of a key (lines 16-21)
InitService ==
    /\ PAGE_STORE = <<>>
    /\ OPENAI_API_KEY \in BOOLEAN
    /\ USE_RESPONSES \in (IF OPENAI_API_KEY THEN BOOLEAN ELSE {FALSE})
    /\ request = NoRequest
    /\ response = NoResponse
    /\ told = <<>>

ServiceIdle ==
    /\ PAGE_STORE = <<>> /\ OPENAI_API_KEY = FALSE /\ USE_RESPONSES = FALSE
    /\ request = NoRequest /\ response = NoResponse /\ told = <<>>

ComposeIdle ==
    /\ pc = "idle" /\ src = NoImage
    /\ new_w = Unset /\ new_h = Unset /\ imgL = NoImage /\ y = Unset /\ pages = <<>>

EncodeIdle == page = NoImage /\ encoded = <<>>

Next ==
    \/ \E answer \in Answers, drawn \in Drawings, token \in Tokens :
           solve_image(answer, drawn, token)
    \/ \E token \in Tokens : manifest(token)
    \/ \E token \in Tokens, i \in (-MaxIndex)..MaxIndex : get_pbm(token, i)

Init == InitService /\ ComposeIdle /\ EncodeIdle

Spec == Init /\ [][Next]_vars

----------------------------------------------------------------------------
(* to_pbm_p4 applied to one page, twice.                                   *)

Dims == (1..MaxDim) \cup {CANVAS_W, CANVAS_H}

EncodeInputs == {Raster(w, h, "page") : w \in Dims, h \in Dims}

InitEncode == page \in EncodeInputs /\ encoded = <<>>

Encode ==
    /\ Len(encoded) < 2
    /\ encoded' = Append(encoded, to_pbm_p4(page))
    /\ UNCHANGED <<page, service_vars, compose_vars>>

EncodeStart == InitEncode /\ ServiceIdle /\ ComposeIdle

SpecEncode == EncodeStart /\ [][Encode]_vars

ComposeCalled == InitCompose /\ ServiceIdle /\ EncodeIdle

SpecCompose == ComposeCalled /\ [][NextCompose]_vars

----------------------------------------------------------------------------
(* Properties of the service (checked under Spec).                         *)

Stored(t) == t \in DOMAIN PAGE_STORE

\* C1: every entry of PAGE_STORE holds at least one page, and a solve_image
\* whose rendering is empty (nothing drawn: no bounding box) or yields no page
\* fails and stores nothing.
C1_EmptySolutionRejected ==
    /\ \A t \in DOMAIN PAGE_STORE :
          /\ Len(PAGE_STORE[t]) >= 1
          /\ \A k \in 1..Len(PAGE_STORE[t]) : PAGE_STORE[t][k].data.bits.of.kind # "blank"
    /\ (request.op = "solve_image" /\ response.status = 200) =>
          (response.pages >= 1 /\ request.drawn.bbox # <<>>)

\* C2: get_pbm(token, i) answers 404 when the token is not stored or i is not in
\* 0..len-1, and otherwise 200 with the i-th stored page as a portable bitmap.
C2_GetPbm ==
    request.op = "get_pbm" =>
        IF Stored(request.token) /\ 0 <= request.i
              /\ request.i < Len(PAGE_STORE[request.token])
        THEN /\ response.status = 200
             /\ response.content = PAGE_STORE[request.token][request.i + 1]
             /\ response.media_type = "image/x-portable-bitmap"
        ELSE response.status = 404

\* a page other than the first was fetched
C2_Witness ==
    /\ request.op = "get_pbm" /\ request.i >= 1 /\ response.status = 200
    /\ \E t \in DOMAIN PAGE_STORE : t # request.token

\* the vision collaborator is unconfigured or unavailable for the next request
UpstreamFails(answer) == ~OPENAI_API_KEY \/ ~USE_RESPONSES \/ answer = "raise"

\* C3: a solve_image whose vision collaborator is unconfigured, unavailable or
\* raises answers with a failure and leaves PAGE_STORE as it was.
C3_UpstreamFailureStoresNothing ==
    [][(request'.op = "solve_image" /\ UpstreamFails(request'.answer)) =>
           (response'.status = 500 /\ PAGE_STORE' = PAGE_STORE)]_vars

\* the model call raised when a page set was already stored
C3_Witness ==
    /\ request.op = "solve_image" /\ request.answer = "raise" /\ USE_RESPONSES
    /\ response.status = 500 /\ DOMAIN PAGE_STORE # {}

\* C4: no step removes a token, and the entry of a token changes only in a
\* solve_image that stores under that token.
C4_StoreFrame ==
    [][\A t \in DOMAIN PAGE_STORE :
           /\ t \in DOMAIN PAGE_STORE'
           /\ PAGE_STORE'[t] # PAGE_STORE[t] =>
                 /\ request'.op = "solve_image"
                 /\ response'.status = 200
                 /\ response'.token = t]_vars

\* a solve_image stored under one token while another was stored
C4_Witness ==
    /\ request.op = "solve_image" /\ response.status = 200
    /\ \E t \in DOMAIN PAGE_STORE : t # response.token

\* C10: for every token a solve_image response gave with page count N, manifest
\* reports N pages and get_pbm succeeds for exactly the indices 0..N-1, and
\* answers 404 for every other index.
C10_ToldCountMatches ==
    \A t \in DOMAIN told :
        /\ manifest_response(t).status = 200
        /\ manifest_response(t).pages = told[t]
        /\ \A i \in (-MaxIndex)..MaxIndex :
              IF 0 <= i /\ i < told[t]
              THEN pbm_response(t, i).status = 200
              ELSE pbm_response(t, i).status = 404

\* the client asked for the page just past the count it was told
C10_Witness ==
    /\ request.op = "get_pbm" /\ request.token \in DOMAIN told
    /\ told[request.token] >= 2 /\ request.i = told[request.token]
    /\ response.status = 404

----------------------------------------------------------------------------
(* Properties of to_pbm_p4 (checked under SpecEncode).                     *)

IsDigit(c)  == \E d \in 1..10 : Digit[d] = c
DigitVal(c) == (CHOOSE d \in 1..10 : Digit[d] = c) - 1

RECURSIVE Num(_)
Num(chars) ==
    IF chars = <<>> THEN 0
    ELSE 10 * Num(SubSeq(chars, 1, Len(chars) - 1)) + DigitVal(chars[Len(chars)])

\* a portable-bitmap header: "P4", newline, width, a space, height, newline
WellFormed(hdr) ==
    /\ Len(hdr) >= 7
    /\ SubSeq(hdr, 1, 3) = <<"P", "4", "\n">>
    /\ hdr[Len(hdr)] = "\n"
    /\ \E sp \in 5..(Len(hdr) - 2) :
          /\ hdr[sp] = " "
          /\ \A j \in (4..(Len(hdr) - 1)) \ {sp} : IsDigit(hdr[j])

ParsedSize(hdr) ==
    LET sp == CHOOSE j \in 4..Len(hdr) : hdr[j] = " "
    IN  <<Num(SubSeq(hdr, 4, sp - 1)), Num(SubSeq(hdr, sp + 1, Len(hdr) - 1))>>

\* C7: the bytes of to_pbm_p4 start with the header "P4\n<w> <h>\n" giving the
\* page's own width and height, followed by h * ceil(w / 8) bytes of rows each
\* padded to a whole byte; two calls on one page return the same bytes.
C7_HeaderAndPayload ==
    \A n \in 1..Len(encoded) :
        /\ WellFormed(encoded[n].header)
        /\ ParsedSize(encoded[n].header) = <<page.w, page.h>>
        /\ encoded[n].data.rows * encoded[n].data.stride = page.h * Ceil(page.w, 8)
        /\ 8 * encoded[n].data.stride >= page.w
        /\ encoded[n] = encoded[1]

\* a page whose rows do not end on a byte was encoded twice
C7_Witness ==
    /\ Len(encoded) = 2
    /\ page.w % 8 # 0 /\ page.w >= 10 /\ page.w # page.h

----------------------------------------------------------------------------
(* Properties of compose_to_pages (checked under SpecCompose).             *)

NonDegenerate == src.w >= 1 /\ src.h >= 1
Finished      == pc \notin {"start", "resize", "while"}

\* the rows [top, bottom) of the scaled raster that page k carries
BandTop(k)    == pages[k].shows.crop[2]
BandBottom(k) == pages[k].shows.crop[4]
BandHeight(k) == BandBottom(k) - BandTop(k)
BandWidth(k)  == pages[k].shows.crop[3] - pages[k].shows.crop[1]

\* C5: for every non-degenerate raster compose_to_pages returns exactly
\* ceil(scaled height / 184) pages, each CANVAS_W x CANVAS_H.
C5_PageCount ==
    (Finished /\ NonDegenerate) =>
        /\ pc = "return"
        /\ Len(pages) = Ceil(new_h, CANVAS_H - 2 * PADDING)
        /\ \A k \in 1..Len(pages) : pages[k].w = CANVAS_W /\ pages[k].h = CANVAS_H

\* C6: compose_to_pages returns at least one page for every raster of width >= 1
\* and height >= 1, and an empty sequence only for a raster of height 0.
C6_AtLeastOnePage ==
    Finished =>
        /\ NonDegenerate => (pc = "return" /\ Len(pages) >= 1)
        /\ (pc = "return" /\ pages = <<>>) => src.h = 0

\* the bands cut so far are contiguous from row 0, full except possibly the last
BandsOK ==
    pc \in {"while", "return"} =>
        /\ \A k \in 1..Len(pages) :
              /\ BandTop(k) = (k - 1) * (CANVAS_H - 2 * PADDING)
              /\ BandHeight(k) \in 1..(CANVAS_H - 2 * PADDING)
              /\ k < Len(pages) => /\ BandHeight(k) = CANVAS_H - 2 * PADDING
                                   /\ BandBottom(k) = BandTop(k + 1)
        /\ y = (IF pages = <<>> THEN 0 ELSE BandBottom(Len(pages)))
        /\ y <= new_h
        /\ pc = "return" => y = new_h
        /\ (pc = "return" /\ new_h = 500) =>
              [k \in 1..Len(pages) |-> BandHeight(k)] = <<184, 184, 132>>

\* every iteration moves y up, never past new_h, and the loop is left only with
\* y = new_h: at most new_h iterations
LoopAdvances ==
    pc = "while" =>
        \/ pc' = "while" /\ y < y' /\ y' <= new_h /\ Len(pages') = Len(pages) + 1
        \/ pc' = "return" /\ y = new_h /\ pages' = pages

\* in the loop there is always a next statement to execute
LoopNotStuck == pc = "while" => ENABLED (ComposeLoop \/ ComposeReturn)

\* C8: the slicing loop terminates, and its bands are contiguous, in order, of
\* height 184 except a last one of 1..184, and cover rows [0, scaled height).
C8_BandsCoverAndTerminate == [](BandsOK /\ LoopNotStuck) /\ [][LoopAdvances]_vars

\* a raster 500 rows high was cut into three pages
C8_Witness == pc = "return" /\ new_h = 500 /\ Len(pages) = 3

\* C9: the downscale never upscales, leaves a raster no wider than 184 alone,
\* yields a width in 1..184, and every band is pasted inside the canvas with at
\* least PADDING pixels free on the left, on the right and above.
C9_DownscaleFits ==
    (NonDegenerate /\ pc \in {"resize", "while", "return", "ValueError"}) =>
        /\ new_w <= src.w /\ new_h <= src.h
        /\ src.w <= CANVAS_W - 2 * PADDING => (new_w = src.w /\ new_h = src.h)
        /\ new_w <= CANVAS_W - 2 * PADDING
        /\ new_w >= 1
        /\ pc \in {"while", "return"} =>
              \A k \in 1..Len(pages) :
                  LET x == pages[k].shows.at[1]
                      t == pages[k].shows.at[2]
                  IN  /\ BandWidth(k) = new_w
                      /\ x = (CANVAS_W - new_w) \div 2
                      /\ x >= PADDING
                      /\ x + BandWidth(k) <= CANVAS_W - PADDING
                      /\ t = PADDING
                      /\ t + BandHeight(k) <= CANVAS_H

\* a raster wider than 184 was scaled down and pasted
C9_Witness ==
    pc = "return" /\ src.w > CANVAS_W - 2 * PADDING /\ new_w < src.w /\ Len(pages) >= 2

============================================================================
